---------------------------- MODULE Spec2Model ----------------------------
(***************************************************************************)
(* Model of FrontHackNation/main.py: the point registry loaded from two    *)
(* CSV sources, the deduplicated undirected route list, and the walking    *)
(* route geometry fetched from the OSRM provider on every reload.          *)
(*                                                                         *)
(* Identifiers are Python strings; they are modelled as sequences of       *)
(* character codes so that sorted() is the lexicographic order of the      *)
(* code.  Optional values (None or a value) are sequences of length <= 1.  *)
(***************************************************************************)
EXTENDS Integers, Sequences, FiniteSets, TLC

VARIABLES points, routes, route_index, lokalizacja_sequence,
          optimized_sequence, full_route_geojson, phase, last, threads

vars == <<points, routes, route_index, lokalizacja_sequence,
          optimized_sequence, full_route_geojson, phase, last, threads>>

(***************************************************************************)
(* Bounds                                                                  *)
(***************************************************************************)
\* the longest primary CSV file (rows) the reload is given
MaxRows == 3

\* the requests one worker thread serves when requests are served concurrently
MaxRequests == 2

(***************************************************************************)
(* Optional values and strings                                             *)
(***************************************************************************)
\* F applied to the value of v, v evaluated once
Bind(v, F(_)) == CHOOSE r \in {F(x) : x \in {v}} : TRUE

None == <<>>
Some(x) == <<x>>
IsNone(o) == o = <<>>
Val(o) == o[1]

\* "A", "AB", "B", "C", and "Z" (an id no CSV row carries)
A == <<65>>
AB == <<65, 66>>
B == <<66>>
C == <<67>>
Z == <<90>>
EmptyStr == <<>>

RECURSIVE StrLess(_, _)
\* Python's str.__lt__: lexicographic comparison by code point
StrLess(s, t) ==
  IF s = <<>> THEN t # <<>>
  ELSE IF t = <<>> THEN FALSE
  ELSE IF Head(s) # Head(t) THEN Head(s) < Head(t)
  ELSE StrLess(Tail(s), Tail(t))

RECURSIVE Digits(_)
\* str(n) for n >= 0
Digits(n) == IF n < 10 THEN <<48 + n>> ELSE Digits(n \div 10) \o <<48 + (n % 10)>>

\* f"db_{n}"
DbId(n) == <<100, 98, 95>> \o Digits(n)

\* float(s) of a trimmed CSV field: Some(number), or None when it raises
ParseFloat(s) ==
  CASE s = "0" -> Some(0)
    [] s = "1" -> Some(1)
    [] s = "2" -> Some(2)
    [] s = "5" -> Some(5)
    [] OTHER -> None


(***************************************************************************)
(* Route Graph Manager                                                     *)
(***************************************************************************)
\* the module-level globals as one record
Globals ==
  [points |-> points, routes |-> routes, route_index |-> route_index,
   lokalizacja_sequence |-> lokalizacja_sequence,
   optimized_sequence |-> optimized_sequence,
   full_route_geojson |-> full_route_geojson]

Route(from_id, to_id) == [from_id |-> from_id, to_id |-> to_id]

\* mutant: the pair as given, not sorted
normalize_route_ids_unsorted(from_id, to_id) == <<from_id, to_id>>

\* tuple(sorted((from_id, to_id)))
normalize_route_ids(from_id, to_id) ==
  IF StrLess(to_id, from_id) THEN <<to_id, from_id>> ELSE <<from_id, to_id>>

\* mutant: the route stored with its endpoints in the order of the request
_add_route_internal_as_given(g, from_id, to_id) ==
  LET normalized == normalize_route_ids(from_id, to_id)
      route == Route(from_id, to_id)
  IN  IF from_id = to_id \/ from_id \notin DOMAIN g.points
         \/ to_id \notin DOMAIN g.points \/ normalized \in g.route_index
        THEN [route |-> None, g |-> g]
      ELSE [route |-> Some(route),
            g |-> [g EXCEPT !.routes = Append(@, route),
                            !.route_index = @ \cup {normalized}]]

\* mutant: no check that the pair is already indexed
_add_route_internal_no_dedup(g, from_id, to_id) ==
  LET normalized == normalize_route_ids(from_id, to_id)
      route == Route(normalized[1], normalized[2])
  IN  IF from_id = to_id \/ from_id \notin DOMAIN g.points
         \/ to_id \notin DOMAIN g.points
        THEN [route |-> None, g |-> g]
      ELSE [route |-> Some(route),
            g |-> [g EXCEPT !.routes = Append(@, route),
                            !.route_index = @ \cup {normalized}]]

\* mutant: no check that both endpoints are in the registry
_add_route_internal_unknown_ok(g, from_id, to_id) ==
  LET normalized == normalize_route_ids(from_id, to_id)
      route == Route(normalized[1], normalized[2])
  IN  IF from_id = to_id \/ normalized \in g.route_index
        THEN [route |-> None, g |-> g]
      ELSE [route |-> Some(route),
            g |-> [g EXCEPT !.routes = Append(@, route),
                            !.route_index = @ \cup {normalized}]]

\* _add_route_internal: the route it returns (None when rejected) and the
\* globals it leaves
_add_route_internal(g, from_id, to_id) ==
  LET normalized == normalize_route_ids(from_id, to_id)
      route == Route(normalized[1], normalized[2])
  IN  IF from_id = to_id
        THEN [route |-> None, g |-> g]
      ELSE IF from_id \notin DOMAIN g.points \/ to_id \notin DOMAIN g.points
        THEN [route |-> None, g |-> g]
      ELSE IF normalized \in g.route_index
        THEN [route |-> None, g |-> g]
      ELSE [route |-> Some(route),
            g |-> [g EXCEPT !.routes = Append(@, route),
                            !.route_index = @ \cup {normalized}]]

\* add_route (POST /routes): 201 with the route, or 400
add_route(g, from_id, to_id) ==
  LET r == _add_route_internal(g, from_id, to_id)
  IN  [status |-> IF IsNone(r.route) THEN 400 ELSE 201, route |-> r.route, g |-> r.g]

\* the list without its idx-th element (list.pop(idx))
Pop(list, idx) == [i \in 1..(Len(list) - 1) |-> IF i < idx THEN list[i] ELSE list[i + 1]]

\* mutant: set.discard and no not-found answer
delete_route_unchecked(g, from_id, to_id) ==
  LET normalized == normalize_route_ids(from_id, to_id)
      hits == {i \in 1..Len(g.routes) :
                 normalize_route_ids(g.routes[i].from_id, g.routes[i].to_id) = normalized}
      first == CHOOSE i \in hits : \A j \in hits : i <= j
  IN  [status |-> 200,
       g |-> [g EXCEPT !.route_index = @ \ {normalized},
                       !.routes = IF hits = {} THEN @ ELSE Pop(@, first)]]

\* mutant: the pair leaves the lookup set and the list keeps its entry
delete_route_index_only(g, from_id, to_id) ==
  LET normalized == normalize_route_ids(from_id, to_id)
  IN  IF normalized \notin g.route_index THEN [status |-> 404, g |-> g]
      ELSE [status |-> 200, g |-> [g EXCEPT !.route_index = @ \ {normalized}]]

\* delete_route (DELETE /routes): 200, or 404 when the pair is not indexed
delete_route(g, from_id, to_id) ==
  LET normalized == normalize_route_ids(from_id, to_id)
      hits == {i \in 1..Len(g.routes) :
                 normalize_route_ids(g.routes[i].from_id, g.routes[i].to_id) = normalized}
      first == CHOOSE i \in hits : \A j \in hits : i <= j
  IN  IF normalized \notin g.route_index
        THEN [status |-> 404, g |-> g]
      ELSE [status |-> 200,
            g |-> [g EXCEPT !.route_index = @ \ {normalized},
                            !.routes = IF hits = {} THEN @ ELSE Pop(@, first)]]

\* build_path_connections: the open chain over a sequence
build_path_connections(sequence) ==
  IF Len(sequence) < 2 THEN <<>>
  ELSE [i \in 1..(Len(sequence) - 1) |-> <<sequence[i], sequence[i + 1]>>]

(***************************************************************************)
(* Point Registry Loader                                                   *)
(*                                                                         *)
(* A CSV file is [exists, rows]; a row holds its fields after the header   *)
(* lookup and the trim ("" for a missing or blank field).  Point keeps     *)
(* id, lat and lng; name and description are only echoed to the client.    *)
(***************************************************************************)
Point(id, lat, lng) == [id |-> id, lat |-> lat, lng |-> lng]

RECURSIVE LoadLokalizacjaRows(_, _, _)
\* the row loop of load_lokalizacja_points over the rows still to read
LoadLokalizacjaRows(rows, loaded_points, sequential_ids) ==
  IF rows = <<>>
    THEN [error |-> "none", points |-> loaded_points, sequential_ids |-> sequential_ids]
  ELSE LET row == Head(rows)
           lng == ParseFloat(row.x)
           lat == ParseFloat(row.y)
       IN  IF row.ID = EmptyStr
             THEN LoadLokalizacjaRows(Tail(rows), loaded_points, sequential_ids)
           ELSE IF IsNone(lng) \/ IsNone(lat)
             THEN [error |-> "ValueError", points |-> <<>>, sequential_ids |-> <<>>]
           ELSE LoadLokalizacjaRows(
                  Tail(rows),
                  [id \in DOMAIN loaded_points \cup {row.ID} |->
                     IF id = row.ID THEN Point(row.ID, Val(lat), Val(lng))
                     ELSE loaded_points[id]],
                  Append(sequential_ids, row.ID))

\* load_lokalizacja_points: the registry and the row order, or the error raised
load_lokalizacja_points(file) ==
  IF ~file.exists
    THEN [error |-> "FileNotFoundError", points |-> <<>>, sequential_ids |-> <<>>]
  ELSE LoadLokalizacjaRows(file.rows, <<>>, <<>>)

RECURSIVE SplitParts(_, _)
\* cleaned.replace(";", ",").split(",") keeping the non-blank parts; the GPS
\* field is a sequence of tokens, "," and ";" being the separators
SplitParts(tokens, acc) ==
  IF tokens = <<>> THEN acc
  ELSE IF Head(tokens) \in {",", ";"} THEN SplitParts(Tail(tokens), acc)
  ELSE SplitParts(Tail(tokens), Append(acc, Head(tokens)))

\* mutant: the id taken as it is, free or not
ProbeDbId_no_probe(existing, next_index, point_id) ==
  [next_index |-> next_index, point_id |-> point_id]

RECURSIVE ProbeDbId(_, _, _)
\* while point_id in existing: next_index += 1; point_id = f"db_{next_index}"
ProbeDbId(existing, next_index, point_id) ==
  IF point_id \in DOMAIN existing
    THEN ProbeDbId(existing, next_index + 1, DbId(next_index + 1))
  ELSE [next_index |-> next_index, point_id |-> point_id]

RECURSIVE LoadDatabaseRows(_, _, _)
\* the row loop of load_database_points
LoadDatabaseRows(rows, existing, next_index) ==
  IF rows = <<>> THEN existing
  ELSE LET row == Head(rows)
           parts == SplitParts(row.gps, <<>>)
           lat == ParseFloat(parts[1])
           lng == ParseFloat(parts[2])
           first == IF row.id # EmptyStr THEN row.id ELSE DbId(next_index)
           probe == ProbeDbId(existing, next_index, first)
       IN  IF row.gps = <<>> \/ Len(parts) # 2
             THEN LoadDatabaseRows(Tail(rows), existing, next_index)
           ELSE IF IsNone(lat) \/ IsNone(lng)
             THEN LoadDatabaseRows(Tail(rows), existing, next_index)
           ELSE LoadDatabaseRows(
                  Tail(rows),
                  [id \in DOMAIN existing \cup {probe.point_id} |->
                     IF id = probe.point_id
                       THEN Point(probe.point_id, Val(lat), Val(lng))
                     ELSE existing[id]],
                  probe.next_index + 1)

\* load_database_points: the registry with the secondary points merged in
load_database_points(file, existing) ==
  IF ~file.exists THEN existing ELSE LoadDatabaseRows(file.rows, existing, 1)

(***************************************************************************)
(* The OSRM provider                                                       *)
(*                                                                         *)
(* A call is answered according to a behaviour of the provider.  The       *)
(* answer is [kind, payload]: kind "transport_error" (HTTPError, URLError, *)
(* TimeoutError), "invalid_json" (a body json.loads rejects) or "json",    *)
(* whose payload is the decoded body: whether it is a JSON object, its     *)
(* routes and its waypoints (the via points in the provider's order).      *)
(***************************************************************************)
OSRM_SOURCE == "router.project-osrm.org-route"

Coordinate(point) == <<point.lng, point.lat>>

\* the last two elements exchanged: an ordering of the provider's own
Reordered(ids) ==
  IF Len(ids) < 2 THEN ids
  ELSE [i \in 1..Len(ids) |->
          IF i = Len(ids) - 1 THEN ids[Len(ids)]
          ELSE IF i = Len(ids) THEN ids[Len(ids) - 1]
          ELSE ids[i]]

OsrmRoute(type, coordinates) ==
  [geometry |-> Some([type |-> type, coordinates |-> coordinates]),
   distance |-> Some(Len(coordinates)), duration |-> Some(2 * Len(coordinates))]

\* the provider's answer to a request for request_points (their ids given)
OsrmResponse(behaviour, request_points, request_ids) ==
  LET line == [i \in 1..Len(request_points) |-> Coordinate(request_points[i])]
      json(is_object, rts, waypoints) ==
        [kind |-> "json",
         payload |-> [is_object |-> is_object, routes |-> rts, waypoints |-> waypoints]]
  IN  CASE behaviour = "transport_error" -> [kind |-> "transport_error", payload |-> <<>>]
        [] behaviour = "invalid_json" -> [kind |-> "invalid_json", payload |-> <<>>]
        [] behaviour = "not_object" -> json(FALSE, <<>>, <<>>)
        [] behaviour = "no_routes" -> json(TRUE, <<>>, <<>>)
        [] behaviour = "no_geometry" ->
             json(TRUE, <<[geometry |-> None, distance |-> None, duration |-> None]>>,
                  request_ids)
        [] behaviour = "polygon" ->
             json(TRUE, <<OsrmRoute("Polygon", line)>>, request_ids)
        [] behaviour = "empty_line" ->
             json(TRUE, <<OsrmRoute("LineString", <<>>)>>, request_ids)
        [] behaviour = "snapped" ->
             json(TRUE,
                  <<OsrmRoute("LineString",
                              <<<<line[1][1] + 1, line[1][2]>>>> \o Tail(line))>>,
                  request_ids)
        [] behaviour = "single_point" ->
             json(TRUE, <<OsrmRoute("LineString", <<line[1]>>)>>, request_ids)
        [] behaviour = "reordered" ->
             json(TRUE,
                  <<OsrmRoute("LineString", Reordered(line))>>,
                  Reordered(request_ids))
        [] OTHER -> json(TRUE, <<OsrmRoute("LineString", line)>>, request_ids)

\* one entry of the log of provider calls made by the request being served
Call(api, ids, behaviour, response) ==
  [api |-> api, ids |-> ids, behaviour |-> behaviour,
   waypoints |-> IF response.kind = "json" THEN response.payload.waypoints ELSE <<>>]

(***************************************************************************)
(* Geometry Synthesizer                                                    *)
(***************************************************************************)
\* fetch_osrm_segment on the provider's answer: the exception it lets
\* through ("none" when it returns) and the value it returns
fetch_osrm_segment(response) ==
  LET routes_payload == response.payload.routes
      route_payload == routes_payload[1]
      geometry == route_payload.geometry
  IN  IF response.kind = "transport_error" THEN [raised |-> "none", value |-> None]
      ELSE IF response.kind = "invalid_json"
        THEN [raised |-> "JSONDecodeError", value |-> None]
      ELSE IF ~response.payload.is_object
        THEN [raised |-> "AttributeError", value |-> None]
      ELSE IF routes_payload = <<>> THEN [raised |-> "none", value |-> None]
      ELSE IF IsNone(geometry) \/ Val(geometry).type # "LineString"
        THEN [raised |-> "none", value |-> None]
      ELSE [raised |-> "none",
            value |-> Some([coordinates |-> Val(geometry).coordinates,
                            distance |-> route_payload.distance,
                            duration |-> route_payload.duration])]

\* the ids of a sequence that the registry resolves, in order
SelectKnown(pts, sequence) == SelectSeq(sequence, LAMBDA id : id \in DOMAIN pts)

Feature(geometry, via_points, distance_m, duration_s) ==
  [geometry |-> geometry, via_points |-> via_points, source |-> OSRM_SOURCE,
   distance_m |-> distance_m, duration_s |-> duration_s]

\* mutant: the via points taken in the order the provider answers
RouteCall_provider_order(ordered_ids, behaviour, response) ==
  LET calls == <<Call("route", ordered_ids, behaviour, response)>>
      routes_payload == response.payload.routes
      geometry == routes_payload[1].geometry
  IN  IF response.kind = "transport_error"
        THEN [raised |-> "none", value |-> None, calls |-> calls]
      ELSE IF response.kind = "invalid_json"
        THEN [raised |-> "JSONDecodeError", value |-> None, calls |-> calls]
      ELSE IF ~response.payload.is_object
        THEN [raised |-> "AttributeError", value |-> None, calls |-> calls]
      ELSE IF routes_payload = <<>> \/ IsNone(geometry)
        THEN [raised |-> "none", value |-> None, calls |-> calls]
      ELSE [raised |-> "none",
            value |-> Some([feature |-> Feature(Val(geometry), response.payload.waypoints,
                                                routes_payload[1].distance,
                                                routes_payload[1].duration),
                            ordered_ids |-> response.payload.waypoints]),
            calls |-> calls]

\* fetch_osrm_route once the request is built: the call and its handling
RouteCall(ordered_ids, behaviour, response) ==
  LET calls == <<Call("route", ordered_ids, behaviour, response)>>
      routes_payload == response.payload.routes
      geometry == routes_payload[1].geometry
  IN  IF response.kind = "transport_error"
        THEN [raised |-> "none", value |-> None, calls |-> calls]
      ELSE IF response.kind = "invalid_json"
        THEN [raised |-> "JSONDecodeError", value |-> None, calls |-> calls]
      ELSE IF ~response.payload.is_object
        THEN [raised |-> "AttributeError", value |-> None, calls |-> calls]
      ELSE IF routes_payload = <<>>
        THEN [raised |-> "none", value |-> None, calls |-> calls]
      ELSE IF IsNone(geometry)
        THEN [raised |-> "none", value |-> None, calls |-> calls]
      ELSE [raised |-> "none",
            value |-> Some([feature |-> Feature(Val(geometry), ordered_ids,
                                                routes_payload[1].distance,
                                                routes_payload[1].duration),
                            ordered_ids |-> ordered_ids]),
            calls |-> calls]

\* mutant: the request sent whatever the number of coordinates
fetch_osrm_route_no_precheck(pts, sequence, behaviour) ==
  Bind(SelectKnown(pts, sequence), LAMBDA ordered_ids :
    Bind(OsrmResponse(behaviour,
                      [i \in 1..Len(ordered_ids) |-> pts[ordered_ids[i]]],
                      ordered_ids),
         LAMBDA response : RouteCall(ordered_ids, behaviour, response)))

\* fetch_osrm_route: the exception it lets through, the (feature, ordered_ids)
\* it returns or None, and the provider calls it made
fetch_osrm_route(pts, sequence, behaviour) ==
  Bind(SelectKnown(pts, sequence), LAMBDA ordered_ids :
    IF Len(ordered_ids) < 2
      THEN [raised |-> "none", value |-> None, calls |-> <<>>]
    ELSE Bind(OsrmResponse(behaviour,
                           [i \in 1..Len(ordered_ids) |-> pts[ordered_ids[i]]],
                           ordered_ids),
              LAMBDA response : RouteCall(ordered_ids, behaviour, response)))

\* x if x else 0, for an optional number (None and 0 are falsy)
Truthy(o) == IF IsNone(o) THEN 0 ELSE Val(o)

\* total or None
OrNone(total) == IF total = 0 THEN None ELSE Some(total)

\* mutant: every segment appended whole
Stitch_extend_all(combined_coordinates, coordinates) ==
  combined_coordinates \o coordinates

\* combined_coordinates after one usable segment is stitched on
Stitch(combined_coordinates, coordinates) ==
  IF combined_coordinates = <<>> THEN coordinates
  ELSE IF combined_coordinates[Len(combined_coordinates)] = coordinates[1]
    THEN combined_coordinates \o Tail(coordinates)
  ELSE combined_coordinates \o coordinates

RECURSIVE SegmentLoop(_, _, _, _, _)
\* mutant: a per-pair call that gave nothing is issued a second time
SegmentTurn_retry(pts, connections, behaviours, i, acc, response) ==
  LET segment == fetch_osrm_segment(response)
      call == Call("segment", connections[i], behaviours[i], response)
      called == [acc EXCEPT !.calls =
                   IF segment.raised = "none" /\ IsNone(segment.value)
                     THEN Append(Append(@, call), call)
                   ELSE Append(@, call)]
      seg == Val(segment.value)
  IN  IF segment.raised # "none"
        THEN [raised |-> segment.raised, acc |-> called]
      ELSE IF IsNone(segment.value)
        THEN SegmentLoop(pts, connections, behaviours, i + 1, called)
      ELSE IF seg.coordinates = <<>>
        THEN SegmentLoop(pts, connections, behaviours, i + 1, called)
      ELSE SegmentLoop(pts, connections, behaviours, i + 1,
             [called EXCEPT
                !.combined_coordinates = Stitch(@, seg.coordinates),
                !.total_distance = @ + Truthy(seg.distance),
                !.total_duration = @ + Truthy(seg.duration)])

\* one turn of the loop of build_segment_geojson for a resolved pair: the
\* call, its handling, and the turns that follow
SegmentTurn(pts, connections, behaviours, i, acc, response) ==
  LET segment == fetch_osrm_segment(response)
      called == [acc EXCEPT !.calls =
                   Append(@, Call("segment", connections[i], behaviours[i], response))]
      seg == Val(segment.value)
  IN  IF segment.raised # "none"
        THEN [raised |-> segment.raised, acc |-> called]
      ELSE IF IsNone(segment.value)
        THEN SegmentLoop(pts, connections, behaviours, i + 1, called)
      ELSE IF seg.coordinates = <<>>
        THEN SegmentLoop(pts, connections, behaviours, i + 1, called)
      ELSE SegmentLoop(pts, connections, behaviours, i + 1,
             [called EXCEPT
                !.combined_coordinates = Stitch(@, seg.coordinates),
                !.total_distance = @ + Truthy(seg.distance),
                !.total_duration = @ + Truthy(seg.duration)])

\* the loop of build_segment_geojson from the i-th connection on; acc holds
\* combined_coordinates, total_distance, total_duration and the calls made
SegmentLoop(pts, connections, behaviours, i, acc) ==
  IF i > Len(connections) THEN [raised |-> "none", acc |-> acc]
  ELSE LET from_id == connections[i][1]
           to_id == connections[i][2]
       IN  IF from_id \notin DOMAIN pts \/ to_id \notin DOMAIN pts
             THEN SegmentLoop(pts, connections, behaviours, i + 1, acc)
           ELSE Bind(acc, LAMBDA a :
                  Bind(OsrmResponse(behaviours[i], <<pts[from_id], pts[to_id]>>,
                                    <<from_id, to_id>>),
                       LAMBDA response :
                         SegmentTurn(pts, connections, behaviours, i, a, response)))

\* what build_segment_geojson returns once its loop has ended
SegmentFeature(sequence, loop) ==
  LET acc == loop.acc
  IN  IF loop.raised # "none"
        THEN [raised |-> loop.raised, value |-> None, calls |-> acc.calls]
      ELSE IF Len(acc.combined_coordinates) < 2
        THEN [raised |-> "none", value |-> None, calls |-> acc.calls]
      ELSE [raised |-> "none",
            value |-> Some(Feature([type |-> "LineString",
                                    coordinates |-> acc.combined_coordinates],
                                   sequence,
                                   OrNone(acc.total_distance),
                                   OrNone(acc.total_duration))),
            calls |-> acc.calls]

\* build_segment_geojson: the exception it lets through, the feature it
\* returns or None, and the provider calls it made
build_segment_geojson(pts, sequence, behaviours) ==
  Bind(SegmentLoop(pts, build_path_connections(sequence), behaviours, 1,
                   [combined_coordinates |-> <<>>, total_distance |-> 0,
                    total_duration |-> 0, calls |-> <<>>]),
       LAMBDA loop : SegmentFeature(sequence, loop))

\* refresh_route_geometry after the bulk call: its result taken, or the fallback
RefreshAfterRoute(pts, sequence, old_optimized, segment_behaviours, route_result) ==
  IF route_result.raised # "none"
    THEN [raised |-> route_result.raised, value |-> None,
          optimized_sequence |-> old_optimized, calls |-> route_result.calls,
          strategy |-> "raised"]
  ELSE IF ~IsNone(route_result.value)
    THEN [raised |-> "none", value |-> Some(Val(route_result.value).feature),
          optimized_sequence |-> Val(route_result.value).ordered_ids,
          calls |-> route_result.calls, strategy |-> "route"]
  ELSE Bind(build_segment_geojson(pts, sequence, segment_behaviours),
            LAMBDA fallback :
              [raised |-> fallback.raised, value |-> fallback.value,
               optimized_sequence |-> sequence,
               calls |-> route_result.calls \o fallback.calls,
               strategy |-> IF fallback.raised # "none" THEN "raised"
                            ELSE "segment-fallback"])

\* refresh_route_geometry: the exception it lets through, the geometry it
\* returns, the optimized_sequence it leaves, the provider calls it made and
\* the strategy that ended it ("absent": no call, "route": the bulk call,
\* "segment-fallback": the per-pair calls, "raised")
refresh_route_geometry(pts, sequence, old_optimized, route_behaviour, segment_behaviours) ==
  IF Len(sequence) < 2
    THEN [raised |-> "none", value |-> None, optimized_sequence |-> sequence,
          calls |-> <<>>, strategy |-> "absent"]
  ELSE Bind(fetch_osrm_route(pts, sequence, route_behaviour),
            LAMBDA route_result :
              RefreshAfterRoute(pts, sequence, old_optimized, segment_behaviours,
                                route_result))

(***************************************************************************)
(* Service Facade                                                          *)
(***************************************************************************)
RECURSIVE AddConnections(_, _, _)
\* for from_id, to_id in default_connections: _add_route_internal(from_id, to_id)
AddConnections(g, connections, i) ==
  IF i > Len(connections) THEN g
  ELSE Bind(_add_route_internal(g, connections[i][1], connections[i][2]).g,
            LAMBDA added : AddConnections(added, connections, i + 1))

\* mutant: the default connections closed back to the first id
ReloadRefreshed_closed_chain(g, merged, sequential_ids, geometry) ==
  LET g1 == [g EXCEPT !.points = merged,
                      !.lokalizacja_sequence = sequential_ids,
                      !.optimized_sequence = geometry.optimized_sequence]
      active_order == IF g1.optimized_sequence # <<>> THEN g1.optimized_sequence
                      ELSE g1.lokalizacja_sequence
      default_connections ==
        IF Len(active_order) < 2 THEN <<>>
        ELSE [i \in 1..Len(active_order) |->
                <<active_order[i],
                  active_order[IF i = Len(active_order) THEN 1 ELSE i + 1]>>]
      g2 == [g1 EXCEPT !.full_route_geojson = geometry.value,
                       !.routes = <<>>,
                       !.route_index = {}]
  IN  IF geometry.raised # "none"
        THEN [raised |-> geometry.raised, g |-> g1, calls |-> geometry.calls,
              strategy |-> geometry.strategy]
      ELSE [raised |-> "none",
            g |-> Bind(g2, LAMBDA cleared :
                    AddConnections(cleared, default_connections, 1)),
            calls |-> geometry.calls, strategy |-> geometry.strategy]

\* reload_points from the geometry refresh on: the registry merged
ReloadRefreshed(g, merged, sequential_ids, geometry) ==
  LET g1 == [g EXCEPT !.points = merged,
                      !.lokalizacja_sequence = sequential_ids,
                      !.optimized_sequence = geometry.optimized_sequence]
      active_order == IF g1.optimized_sequence # <<>> THEN g1.optimized_sequence
                      ELSE g1.lokalizacja_sequence
      default_connections == build_path_connections(active_order)
      g2 == [g1 EXCEPT !.full_route_geojson = geometry.value,
                       !.routes = <<>>,
                       !.route_index = {}]
  IN  IF geometry.raised # "none"
        THEN [raised |-> geometry.raised, g |-> g1, calls |-> geometry.calls,
              strategy |-> geometry.strategy]
      ELSE [raised |-> "none",
            g |-> Bind(g2, LAMBDA cleared :
                    AddConnections(cleared, default_connections, 1)),
            calls |-> geometry.calls, strategy |-> geometry.strategy]

\* reload_points from its second statement on, the primary source loaded
ReloadLoaded(g, loaded, database, route_behaviour, segment_behaviours) ==
  Bind(load_database_points(database, loaded.points), LAMBDA merged :
    Bind(refresh_route_geometry(merged, loaded.sequential_ids, g.optimized_sequence,
                                route_behaviour, segment_behaviours),
         LAMBDA geometry :
           ReloadRefreshed(g, merged, loaded.sequential_ids, geometry)))

\* mutant: the globals reset before the primary source is loaded
reload_points_reset_first(g, primary, database, route_behaviour, segment_behaviours) ==
  Bind(load_lokalizacja_points(primary), LAMBDA loaded :
    IF loaded.error # "none"
      THEN [raised |-> loaded.error,
            g |-> [g EXCEPT !.points = <<>>, !.routes = <<>>, !.route_index = {}],
            calls |-> <<>>, strategy |-> "none"]
    ELSE ReloadLoaded(g, loaded, database, route_behaviour, segment_behaviours))

\* reload_points: the exception it lets through ("none" when it returns),
\* the globals it leaves, the provider calls it made and the strategy that
\* ended the geometry refresh ("none" when it was not reached)
reload_points(g, primary, database, route_behaviour, segment_behaviours) ==
  Bind(load_lokalizacja_points(primary), LAMBDA loaded :
    IF loaded.error # "none"
      THEN [raised |-> loaded.error, g |-> g, calls |-> <<>>, strategy |-> "none"]
    ELSE ReloadLoaded(g, loaded, database, route_behaviour, segment_behaviours))

(***************************************************************************)
(* Inputs: the CSV files on disk, the provider's behaviour, the requests   *)
(***************************************************************************)
PrimaryRow(id, x, y) == [ID |-> id, x |-> x, y |-> y]

\* A(0,0), B(0,1), C(0,2) as (x, y); a row without ID, skipped whatever its
\* coordinates; a row with an ID whose x is no number
RowA == PrimaryRow(A, "0", "0")
RowB == PrimaryRow(B, "0", "1")
RowC == PrimaryRow(C, "0", "2")
RowNoId == PrimaryRow(EmptyStr, "abc", "0")
RowBad == PrimaryRow(B, "abc", "1")

CsvFile(rows) == [exists |-> TRUE, rows |-> rows]
MissingFile == [exists |-> FALSE, rows |-> <<>>]

\* the first n rows of a file
FirstRows(rows, n) == SubSeq(rows, 1, IF n < Len(rows) THEN n ELSE Len(rows))

\* the primary sources: ids in order, an id repeated at once, an id repeated
\* after another, a row without ID and a row with unparsable coordinates
PrimarySources ==
  {<<RowA, RowC, RowB, RowA>>, <<RowC, RowA, RowA, RowB>>,
   <<RowB, RowA, RowB, RowC>>, <<RowNoId, RowA, RowBad, RowC>>}

\* lokalzacja.csv at a reload: missing, or a source cut to at most MaxRows rows
PrimaryFiles ==
  {MissingFile} \cup {CsvFile(FirstRows(src, n)) : src \in PrimarySources, n \in 0..MaxRows}

DatabaseRow(id, gps) == [id |-> id, gps |-> gps]

\* database.csv at a reload: missing, or one row with an explicit id the
\* primary source may hold
DatabaseFiles == {MissingFile, CsvFile(<<DatabaseRow(A, <<"5", ",", "5">>)>>)}

RouteBehaviours == {"ok", "reordered", "transport_error", "invalid_json"}

SegmentBehaviourKinds == {"ok", "transport_error"}

\* the provider's behaviour on each per-pair call, by connection; one choice
\* when the outcome of the bulk call leaves no per-pair call to answer
SegmentBehaviours(pts, sequence, route_behaviour) ==
  Bind(fetch_osrm_route(pts, sequence, route_behaviour), LAMBDA route_result :
    IF Len(sequence) < 2 \/ route_result.raised # "none" \/ ~IsNone(route_result.value)
      THEN {[i \in 1..(Len(sequence) - 1) |-> "ok"]}
    ELSE [1..(Len(sequence) - 1) -> SegmentBehaviourKinds])

\* the requests' (from_id, to_id): either order, a self-loop, an unknown id
RequestPairs == {<<B, A>>, <<A, A>>, <<Z, A>>}

(***************************************************************************)
(* The service: the import-time load, then one request at a time           *)
(***************************************************************************)
\* the request served last: its arguments, the status and the exception it
\* ended with, the provider calls it made and the geometry strategy it took
Last(op, from_id, to_id, status, error, calls, strategy) ==
  [op |-> op, from_id |-> from_id, to_id |-> to_id, status |-> status,
   error |-> error, calls |-> calls, strategy |-> strategy]

\* the worker threads of the server's pool; a thread is at a line of the
\* handler it runs (pc), with the handler's local variables, or idle with the
\* status of the request it served last
Threads == {1, 2}

Thread(op, pc, status, error, local, served) ==
  [op |-> op, pc |-> pc, status |-> status, error |-> error, local |-> local,
   served |-> served]

Idle == Thread("none", "idle", 0, "none", <<>>, 0)

SetGlobals(g) ==
  /\ points' = g.points
  /\ routes' = g.routes
  /\ route_index' = g.route_index
  /\ lokalizacja_sequence' = g.lokalizacja_sequence
  /\ optimized_sequence' = g.optimized_sequence
  /\ full_route_geojson' = g.full_route_geojson

Init ==
  /\ points = <<>>
  /\ routes = <<>>
  /\ route_index = {}
  /\ lokalizacja_sequence = <<>>
  /\ optimized_sequence = <<>>
  /\ full_route_geojson = None
  /\ phase = "import"
  /\ last = Last("none", EmptyStr, EmptyStr, 0, "none", <<>>, "none")
  /\ threads = [t \in Threads |-> Idle]

\* one run of reload_points on the files and the provider of the moment
Reload(op) ==
  \E primary \in PrimaryFiles :
    \E loaded \in {load_lokalizacja_points(primary)} :
      \E database \in IF loaded.error = "none" THEN DatabaseFiles ELSE {MissingFile} :
        \E merged \in {load_database_points(database, loaded.points)} :
          \E route_behaviour \in IF Len(loaded.sequential_ids) < 2
                                   THEN {"ok"} ELSE RouteBehaviours :
            \E segment_behaviours \in
                 SegmentBehaviours(merged, loaded.sequential_ids, route_behaviour) :
              \E g \in {Globals} :
                \E r \in {reload_points(g, primary, database, route_behaviour,
                                        segment_behaviours)} :
                  /\ SetGlobals(r.g)
                  /\ last' = Last(op, EmptyStr, EmptyStr,
                                  IF op = "startup" THEN 0
                                  ELSE IF r.raised = "none" THEN 200 ELSE 500,
                                  r.raised, r.calls, r.strategy)

\* the initial load at import: reload_points() with every exception swallowed
InitialLoad ==
  /\ phase = "import"
  /\ Reload("startup")
  /\ phase' = "serving"
  /\ UNCHANGED threads

\* POST /reload-points: 200 with the points, or 500 with the exception
reload_points_endpoint ==
  /\ phase = "serving"
  /\ Reload("reload")
  /\ UNCHANGED <<phase, threads>>

\* POST /routes
AddRoute ==
  /\ phase = "serving"
  /\ \E pair \in RequestPairs :
       \E r \in {add_route(Globals, pair[1], pair[2])} :
           /\ SetGlobals(r.g)
           /\ last' = Last("add", pair[1], pair[2], r.status, "none", <<>>, "none")
  /\ UNCHANGED <<phase, threads>>

\* DELETE /routes
DeleteRoute ==
  /\ phase = "serving"
  /\ \E pair \in RequestPairs :
       \E r \in {delete_route(Globals, pair[1], pair[2])} :
           /\ SetGlobals(r.g)
           /\ last' = Last("delete", pair[1], pair[2], r.status, "none", <<>>, "none")
  /\ UNCHANGED <<phase, threads>>

Next == InitialLoad \/ reload_points_endpoint \/ AddRoute \/ DeleteRoute

Spec == Init /\ [][Next]_vars

(***************************************************************************)
(* The synthesizer alone: refresh_route_geometry applied once to a         *)
(* registry and a sequence of ids, resolvable or not                       *)
(***************************************************************************)
RECURSIVE SeqsOver(_, _)
\* the sequences over ids of length at most n
SeqsOver(ids, n) ==
  IF n = 0 THEN {<<>>}
  ELSE LET shorter == SeqsOver(ids, n - 1)
       IN  shorter \cup {Append(q, id) : q \in shorter, id \in ids}

\* the registry of the points A(0,0), B(0,1), C(0,2) with the given ids
RegistryOf(ids) ==
  [id \in ids |-> IF id = A THEN Point(A, 0, 0)
                  ELSE IF id = B THEN Point(B, 1, 0)
                  ELSE Point(C, 2, 0)]

SynthRegistries == {RegistryOf({A, B, C}), RegistryOf({A}), RegistryOf({})}

SynthSequences == SeqsOver({A, B, C, Z}, MaxRows)

\* the provider on the bulk call: every outcome fetch_osrm_route tells apart
SynthRouteBehaviours ==
  {"ok", "polygon", "transport_error", "no_routes", "no_geometry",
   "invalid_json", "not_object"}

\* the provider on a per-pair call
SynthSegmentKinds ==
  {"ok", "snapped", "single_point", "empty_line", "polygon", "transport_error",
   "invalid_json"}

SynthInit ==
  /\ points \in SynthRegistries
  /\ lokalizacja_sequence \in SynthSequences
  /\ routes = <<>>
  /\ route_index = {}
  /\ optimized_sequence = <<>>
  /\ full_route_geojson = None
  /\ phase = "synthesize"
  /\ last = Last("none", EmptyStr, EmptyStr, 0, "none", <<>>, "none")
  /\ threads = [t \in Threads |-> Idle]

\* full_route_geojson = refresh_route_geometry(lokalizacja_sequence)
Synthesize ==
  /\ phase = "synthesize"
  /\ \E route_behaviour \in SynthRouteBehaviours :
       \E route_result \in {fetch_osrm_route(points, lokalizacja_sequence, route_behaviour)} :
         \E segment_behaviours \in
              IF Len(lokalizacja_sequence) < 2 \/ route_result.raised # "none"
                 \/ ~IsNone(route_result.value)
                THEN {<<>>}
              ELSE [1..(Len(lokalizacja_sequence) - 1) -> SynthSegmentKinds] :
           \E r \in {refresh_route_geometry(points, lokalizacja_sequence,
                                            optimized_sequence, route_behaviour,
                                            segment_behaviours)} :
             /\ optimized_sequence' = r.optimized_sequence
             /\ full_route_geojson' = IF r.raised = "none" THEN r.value
                                      ELSE full_route_geojson
             /\ last' = Last("synthesize", EmptyStr, EmptyStr, 0, r.raised, r.calls,
                             r.strategy)
  /\ phase' = "done"
  /\ UNCHANGED <<points, routes, route_index, lokalizacja_sequence, threads>>

SynthNext == Synthesize

SynthSpec == SynthInit /\ [][SynthNext]_vars

(***************************************************************************)
(* Requests served concurrently: the handlers are plain functions, which   *)
(* the server runs on the threads of a pool, and nothing in the module     *)
(* locks the globals.  A step is one statement of a handler; the threads'  *)
(* steps interleave.                                                       *)
(***************************************************************************)
\* the globals after the import-time load of A, C, B with the provider up
LoadedGlobals ==
  reload_points([points |-> <<>>, routes |-> <<>>, route_index |-> {},
                 lokalizacja_sequence |-> <<>>, optimized_sequence |-> <<>>,
                 full_route_geojson |-> None],
                CsvFile(<<RowA, RowC, RowB>>), MissingFile, "ok", <<"ok", "ok">>).g

ConcInit ==
  /\ \E g \in {LoadedGlobals} :
       /\ points = g.points
       /\ routes = g.routes
       /\ route_index = g.route_index
       /\ lokalizacja_sequence = g.lokalizacja_sequence
       /\ optimized_sequence = g.optimized_sequence
       /\ full_route_geojson = g.full_route_geojson
  /\ phase = "serving"
  /\ last = Last("startup", EmptyStr, EmptyStr, 0, "none", <<>>, "route")
  /\ threads = [t \in Threads |-> Idle]

\* a thread free to take a request
Free(t) == threads[t].pc = "idle" /\ threads[t].served < MaxRequests

\* thread t goes on to pc with its locals
Goto(t, op, pc, local) ==
  threads' = [threads EXCEPT ![t] = Thread(op, pc, 0, "none", local, @.served)]

\* thread t answers its request
Answer(t, op, from_id, to_id, status, error) ==
  /\ threads' = [threads EXCEPT ![t] = Thread(op, "idle", status, error,
                                              [from_id |-> from_id, to_id |-> to_id],
                                              @.served + 1)]
  /\ last' = Last(op, from_id, to_id, status, error, <<>>, "none")

\* the pairs of the concurrent route edits: one pair in both orders, not
\* stored at first, and a stored pair
EditPairs == {<<A, B>>, <<B, A>>, <<C, A>>}

\* POST /routes, lines 99-105 of _add_route_internal: the checks
AddCheck(t) ==
  /\ Free(t)
  /\ \E pair \in EditPairs :
       LET from_id == pair[1]
           to_id == pair[2]
           normalized == normalize_route_ids(from_id, to_id)
       IN  IF from_id = to_id \/ from_id \notin DOMAIN points
              \/ to_id \notin DOMAIN points \/ normalized \in route_index
             THEN Answer(t, "add", from_id, to_id, 400, "none")
           ELSE /\ Goto(t, "add", "append",
                        [from_id |-> from_id, to_id |-> to_id, normalized |-> normalized])
                /\ UNCHANGED last
  /\ UNCHANGED <<points, routes, route_index, lokalizacja_sequence,
                 optimized_sequence, full_route_geojson, phase>>

\* line 107: routes.append(route)
AddAppend(t) ==
  /\ threads[t].op = "add" /\ threads[t].pc = "append"
  /\ routes' = Append(routes, Route(threads[t].local.normalized[1],
                                    threads[t].local.normalized[2]))
  /\ Goto(t, "add", "index", threads[t].local)
  /\ UNCHANGED <<points, route_index, lokalizacja_sequence, optimized_sequence,
                 full_route_geojson, phase, last>>

\* line 108: route_index.add(normalized), and the 201 of add_route
AddIndex(t) ==
  /\ threads[t].op = "add" /\ threads[t].pc = "index"
  /\ route_index' = route_index \cup {threads[t].local.normalized}
  /\ Answer(t, "add", threads[t].local.from_id, threads[t].local.to_id, 201, "none")
  /\ UNCHANGED <<points, routes, lokalizacja_sequence, optimized_sequence,
                 full_route_geojson, phase>>

\* DELETE /routes, lines 415-419: the lookup and the 404
DeleteCheck(t) ==
  /\ Free(t)
  /\ \E pair \in EditPairs :
       LET normalized == normalize_route_ids(pair[1], pair[2])
       IN  IF normalized \notin route_index
             THEN Answer(t, "delete", pair[1], pair[2], 404, "none")
           ELSE /\ Goto(t, "delete", "remove",
                        [from_id |-> pair[1], to_id |-> pair[2], normalized |-> normalized])
                /\ UNCHANGED last
  /\ UNCHANGED <<points, routes, route_index, lokalizacja_sequence,
                 optimized_sequence, full_route_geojson, phase>>

\* line 421: route_index.remove(normalized), a KeyError when the pair has
\* left the set, which the server answers with 500
DeleteRemove(t) ==
  /\ threads[t].op = "delete" /\ threads[t].pc = "remove"
  /\ IF threads[t].local.normalized \notin route_index
       THEN /\ Answer(t, "delete", threads[t].local.from_id, threads[t].local.to_id,
                      500, "KeyError")
            /\ UNCHANGED route_index
     ELSE /\ route_index' = route_index \ {threads[t].local.normalized}
          /\ Goto(t, "delete", "pop", threads[t].local)
          /\ UNCHANGED last
  /\ UNCHANGED <<points, routes, lokalizacja_sequence, optimized_sequence,
                 full_route_geojson, phase>>

\* lines 422-427: the first matching entry popped, and the 200
DeletePop(t) ==
  /\ threads[t].op = "delete" /\ threads[t].pc = "pop"
  /\ LET hits == {i \in 1..Len(routes) :
                    normalize_route_ids(routes[i].from_id, routes[i].to_id)
                      = threads[t].local.normalized}
     IN  routes' = IF hits = {} THEN routes
                   ELSE Pop(routes, CHOOSE i \in hits : \A j \in hits : i <= j)
  /\ Answer(t, "delete", threads[t].local.from_id, threads[t].local.to_id, 200, "none")
  /\ UNCHANGED <<points, route_index, lokalizacja_sequence, optimized_sequence,
                 full_route_geojson, phase>>

EditNext ==
  \E t \in Threads :
    \/ AddCheck(t)
    \/ AddAppend(t)
    \/ AddIndex(t)
    \/ DeleteCheck(t)
    \/ DeleteRemove(t)
    \/ DeletePop(t)

\* two threads serving route edits
EditSpec == ConcInit /\ [][EditNext]_vars

\* what a reader running beside a reload is compared with: the registry
\* and the route list as they were when that reload began
Snapshot == [points |-> points, routes |-> routes]

\* the reload another thread is in the middle of, if any: its snapshot
Reloading(t) ==
  LET busy == {u \in Threads \ {t} : threads[u].op = "reload" /\ threads[u].pc # "idle"}
  IN  IF busy = {} THEN None ELSE Some(threads[CHOOSE u \in busy : TRUE].local.before)

\* lokalzacja.csv at a concurrent reload
ReloadFiles == {MissingFile, CsvFile(<<RowB, RowA>>), CsvFile(<<RowA, RowC, RowB>>)}

\* a reload ends: the 200 or the 500 of reload_points_endpoint
ReloadAnswer(t, status, error, calls, strategy) ==
  /\ threads' = [threads EXCEPT ![t] = Thread("reload", "idle", status, error, <<>>,
                                              @.served + 1)]
  /\ last' = Last("reload", EmptyStr, EmptyStr, status, error, calls, strategy)

\* POST /reload-points, line 355: the primary source loaded and points bound
ReloadLoad(t) ==
  /\ Free(t)
  /\ \A u \in Threads : threads[u].op # "reload" \/ threads[u].pc = "idle"
  /\ \E primary \in ReloadFiles :
       \E loaded \in {load_lokalizacja_points(primary)} :
         IF loaded.error # "none"
           THEN /\ ReloadAnswer(t, 500, loaded.error, <<>>, "none")
                /\ UNCHANGED points
         ELSE /\ points' = loaded.points
              /\ Goto(t, "reload", "sequence",
                      [before |-> Snapshot, sequential_ids |-> loaded.sequential_ids,
                       calls |-> <<>>, strategy |-> "none",
                       default_connections |-> <<>>, i |-> 1])
              /\ UNCHANGED last
  /\ UNCHANGED <<routes, route_index, lokalizacja_sequence, optimized_sequence,
                 full_route_geojson, phase>>

\* line 356: lokalizacja_sequence = sequential_ids
ReloadSequence(t) ==
  /\ threads[t].op = "reload" /\ threads[t].pc = "sequence"
  /\ lokalizacja_sequence' = threads[t].local.sequential_ids
  /\ Goto(t, "reload", "database", threads[t].local)
  /\ UNCHANGED <<points, routes, route_index, optimized_sequence,
                 full_route_geojson, phase, last>>

\* line 357: points = load_database_points(DATABASE_CSV, points)
ReloadDatabase(t) ==
  /\ threads[t].op = "reload" /\ threads[t].pc = "database"
  /\ \E database \in DatabaseFiles : points' = load_database_points(database, points)
  /\ Goto(t, "reload", "geometry", threads[t].local)
  /\ UNCHANGED <<routes, route_index, lokalizacja_sequence, optimized_sequence,
                 full_route_geojson, phase, last>>

\* line 358: full_route_geojson = refresh_route_geometry(lokalizacja_sequence)
ReloadGeometry(t) ==
  /\ threads[t].op = "reload" /\ threads[t].pc = "geometry"
  /\ \E route_behaviour \in {"ok", "transport_error", "invalid_json"} :
       \E r \in {refresh_route_geometry(
                   points, lokalizacja_sequence, optimized_sequence, route_behaviour,
                   [i \in 1..(Len(lokalizacja_sequence) - 1) |-> "ok"])} :
         /\ optimized_sequence' = r.optimized_sequence
         /\ IF r.raised # "none"
              THEN /\ ReloadAnswer(t, 500, r.raised, r.calls, r.strategy)
                   /\ UNCHANGED full_route_geojson
            ELSE /\ full_route_geojson' = r.value
                 /\ Goto(t, "reload", "routes",
                         [threads[t].local EXCEPT !.calls = r.calls,
                                                  !.strategy = r.strategy])
                 /\ UNCHANGED last
  /\ UNCHANGED <<points, routes, route_index, lokalizacja_sequence, phase>>

\* lines 359-361: the default connections computed and routes = []
ReloadRoutes(t) ==
  /\ threads[t].op = "reload" /\ threads[t].pc = "routes"
  /\ routes' = <<>>
  /\ Goto(t, "reload", "route_index",
          [threads[t].local EXCEPT !.default_connections =
             build_path_connections(IF optimized_sequence # <<>>
                                      THEN optimized_sequence
                                    ELSE lokalizacja_sequence)])
  /\ UNCHANGED <<points, route_index, lokalizacja_sequence, optimized_sequence,
                 full_route_geojson, phase, last>>

\* line 362: route_index = set()
ReloadRouteIndex(t) ==
  /\ threads[t].op = "reload" /\ threads[t].pc = "route_index"
  /\ route_index' = {}
  /\ Goto(t, "reload", "connect", threads[t].local)
  /\ UNCHANGED <<points, routes, lokalizacja_sequence, optimized_sequence,
                 full_route_geojson, phase, last>>

\* lines 363-367: one turn of the loop over default_connections, or the return
ReloadConnect(t) ==
  /\ threads[t].op = "reload" /\ threads[t].pc = "connect"
  /\ LET local == threads[t].local
     IN  IF local.i > Len(local.default_connections)
           THEN /\ ReloadAnswer(t, 200, "none", local.calls, local.strategy)
                /\ UNCHANGED <<routes, route_index>>
         ELSE \E added \in {_add_route_internal(Globals,
                                                local.default_connections[local.i][1],
                                                local.default_connections[local.i][2]).g} :
                /\ routes' = added.routes
                /\ route_index' = added.route_index
                /\ Goto(t, "reload", "connect", [local EXCEPT !.i = @ + 1])
                /\ UNCHANGED last
  /\ UNCHANGED <<points, lokalizacja_sequence, optimized_sequence,
                 full_route_geojson, phase>>

\* a reader's answer, with the snapshot of the reload it ran beside
Read(t, op, seen) ==
  /\ threads' = [threads EXCEPT ![t] =
                   Thread(op, "idle", seen.status, "none",
                          [seen |-> seen, reloading |-> Reloading(t)], @.served + 1)]
  /\ UNCHANGED <<points, routes, route_index, lokalizacja_sequence,
                 optimized_sequence, full_route_geojson, phase, last>>

\* GET /routes
get_routes(g) == [status |-> 200, body |-> g.routes]

\* GET /points
get_points(g) == [status |-> 200, body |-> {g.points[id] : id \in DOMAIN g.points}]

\* GET /api/route-config: the first route, its two points looked up; without
\* a route the first two keys of points, left unnamed here
get_route_config(g) ==
  IF g.routes = <<>>
    THEN IF Cardinality(DOMAIN g.points) < 2
           THEN [status |-> 404, body |-> "Not enough points to suggest a route"]
         ELSE [status |-> 200, body |-> "first two points"]
  ELSE LET normalized == normalize_route_ids(g.routes[1].from_id, g.routes[1].to_id)
       IN  IF normalized[1] \notin DOMAIN g.points \/ normalized[2] \notin DOMAIN g.points
             THEN [status |-> 404, body |-> "Points for the route could not be found"]
           ELSE [status |-> 200, body |-> normalized]

GetRoutes(t) == Free(t) /\ Read(t, "get_routes", get_routes(Globals))

GetPoints(t) == Free(t) /\ Read(t, "get_points", get_points(Globals))

GetRouteConfig(t) == Free(t) /\ Read(t, "get_route_config", get_route_config(Globals))

ReloadNext ==
  \E t \in Threads :
    \/ ReloadLoad(t)
    \/ ReloadSequence(t)
    \/ ReloadDatabase(t)
    \/ ReloadGeometry(t)
    \/ ReloadRoutes(t)
    \/ ReloadRouteIndex(t)
    \/ ReloadConnect(t)
    \/ GetRoutes(t)
    \/ GetPoints(t)
    \/ GetRouteConfig(t)

\* one thread reloading while the others serve readers
ReloadSpec == ConcInit /\ [][ReloadNext]_vars

(***************************************************************************)
(* Properties                                                              *)
(***************************************************************************)
\* the pair (a, b) with the lexicographically smaller id first
CanonicalPair(a, b) == IF StrLess(b, a) THEN <<b, a>> ELSE <<a, b>>

\* the positions of a route list that hold the canonical pair
StoredAt(list, pair) ==
  {i \in 1..Len(list) : CanonicalPair(list[i].from_id, list[i].to_id) = pair}

\* the ids a request may name: registered or not
AllIds == {A, B, C, Z} \cup DOMAIN points

GlobalsUnchanged ==
  UNCHANGED <<points, routes, route_index, lokalizacja_sequence,
              optimized_sequence, full_route_geojson>>

\* the last request was a load that returned
Reloaded == last.op \in {"startup", "reload"} /\ last.error = "none"

Distinct(seq) == \A i, j \in 1..Len(seq) : seq[i] = seq[j] => i = j

RECURSIVE ChainRoutes(_, _, _)
\* the routes of the open chain over seq from position i on, in order, each
\* stored canonically; a pair of equal ids or a pair already kept adds nothing
ChainRoutes(seq, i, acc) ==
  IF i >= Len(seq) THEN acc
  ELSE LET pair == CanonicalPair(seq[i], seq[i + 1])
       IN  ChainRoutes(seq, i + 1,
                       IF seq[i] = seq[i + 1] \/ StoredAt(acc, pair) # {} THEN acc
                       ELSE Append(acc, Route(pair[1], pair[2])))

\* C1: in every reachable state every stored route has two different
\* endpoints, the lexicographically smaller id first, and no two stored
\* routes have the same canonical pair
C1_RoutesCanonical ==
  /\ \A i \in 1..Len(routes) :
       /\ routes[i].from_id # routes[i].to_id
       /\ StrLess(routes[i].from_id, routes[i].to_id)
  /\ \A i, j \in 1..Len(routes) :
       CanonicalPair(routes[i].from_id, routes[i].to_id)
         = CanonicalPair(routes[j].from_id, routes[j].to_id) => i = j

\* a route requested larger id first was added to two default routes
C1_Witness ==
  /\ last.op = "add" /\ last.status = 201
  /\ StrLess(last.to_id, last.from_id)
  /\ Len(routes) >= 3

\* C2: from every state and for every pair of ids a, b, addRoute(a,b) and
\* addRoute(b,a) return the same outcome and leave the same state, and on
\* success exactly one route is stored for the pair, with from_id < to_id
C2_AddRouteSymmetric ==
  \A a, b \in AllIds :
    LET ab == add_route(Globals, a, b)
        ba == add_route(Globals, b, a)
        stored == ab.g.routes[Len(ab.g.routes)]
    IN  /\ ab = ba
        /\ ab.status = 201 =>
             /\ Len(ab.g.routes) = Len(routes) + 1
             /\ StrLess(stored.from_id, stored.to_id)
             /\ {stored.from_id, stored.to_id} = {a, b}
             /\ Cardinality(StoredAt(ab.g.routes, CanonicalPair(a, b))) = 1

\* addRoute(b, a) with a < b succeeded and stored the route (a, b) last
C2_Witness ==
  /\ last.op = "add" /\ last.status = 201
  /\ StrLess(last.to_id, last.from_id)
  /\ routes # <<>>
  /\ routes[Len(routes)] = Route(last.to_id, last.from_id)

\* C3: from any state, after addRoute(a,b) a second addRoute of the pair, in
\* either argument order, is rejected and changes nothing, and the pair is
\* stored at most once (exactly once when the first call or an earlier one
\* stored it); after removeRoute(a,b) a second removeRoute of the pair, in
\* either order, reports not-found and changes nothing
C3_Idempotent ==
  \A a, b \in AllIds :
    LET first == add_route(Globals, a, b)
        again == add_route(first.g, a, b)
        swapped == add_route(first.g, b, a)
        count == Cardinality(StoredAt(again.g.routes, CanonicalPair(a, b)))
        removed == delete_route(Globals, a, b)
        removedAgain == delete_route(removed.g, a, b)
        removedSwapped == delete_route(removed.g, b, a)
    IN  /\ again.status = 400 /\ again.g = first.g
        /\ swapped.status = 400 /\ swapped.g = first.g
        /\ count <= 1
        /\ (first.status = 201 \/ StoredAt(routes, CanonicalPair(a, b)) # {}) => count = 1
        /\ removedAgain.status = 404 /\ removedAgain.g = removed.g
        /\ removedSwapped.status = 404 /\ removedSwapped.g = removed.g
        /\ StoredAt(removedAgain.g.routes, CanonicalPair(a, b)) = {}

\* an addRoute of two registered, different ids was rejected because the
\* pair is stored, and it is stored once
C3_Witness ==
  /\ last.op = "add" /\ last.status = 400
  /\ last.from_id # last.to_id
  /\ {last.from_id, last.to_id} \subseteq DOMAIN points
  /\ Cardinality(StoredAt(routes, CanonicalPair(last.from_id, last.to_id))) = 1

\* C4: addRoute(fromId, toId) is rejected and leaves the registry, the route
\* list, the lookup set, the sequences and the geometry unchanged whenever
\* fromId = toId, or either id is absent from the registry, or the canonical
\* pair is already stored; in every other case it appends exactly one route
C4_AddRouteRejects ==
  [][last'.op = "add" =>
       LET a == last'.from_id
           b == last'.to_id
           pair == CanonicalPair(a, b)
           rejected == \/ a = b
                       \/ a \notin DOMAIN points
                       \/ b \notin DOMAIN points
                       \/ StoredAt(routes, pair) # {}
       IN  IF rejected
             THEN last'.status = 400 /\ GlobalsUnchanged
           ELSE /\ last'.status = 201
                /\ routes' = Append(routes, Route(pair[1], pair[2]))
                /\ route_index' = route_index \cup {pair}
                /\ UNCHANGED <<points, lokalizacja_sequence, optimized_sequence,
                               full_route_geojson>>]_vars

\* an addRoute naming an id that is not in the registry was rejected while
\* routes were stored
C4_Witness ==
  /\ last.op = "add" /\ last.status = 400
  /\ last.from_id \notin DOMAIN points
  /\ last.to_id \in DOMAIN points
  /\ routes # <<>>

\* C5: removeRoute(fromId, toId) on a pair whose canonical pair has no
\* stored route reports not-found and changes nothing: the route list keeps
\* its length and content and the lookup set is unchanged
C5_RemoveAbsent ==
  [][(last'.op = "delete"
        /\ StoredAt(routes, CanonicalPair(last'.from_id, last'.to_id)) = {})
       => last'.status = 404 /\ GlobalsUnchanged]_vars

\* a removeRoute of two registered ids reported not-found while other
\* routes were stored
C5_Witness ==
  /\ last.op = "delete" /\ last.status = 404
  /\ last.from_id # last.to_id
  /\ {last.from_id, last.to_id} \subseteq DOMAIN points
  /\ routes # <<>>

\* C6: when the loader fails during a reload (primary source missing, or a
\* primary row with an identifier but unparsable coordinates), the reload is
\* aborted, POST /reload-points answers 500, and the registry, both
\* sequences, the route list, the lookup set and the geometry are left as
\* they were
C6_LoaderFailureKeepsState ==
  [][(last'.op \in {"startup", "reload"}
        /\ last'.error \in {"FileNotFoundError", "ValueError"})
       => /\ GlobalsUnchanged
          /\ last'.calls = <<>>
          /\ last'.op = "reload" => last'.status = 500]_vars

\* a reload failed on unparsable coordinates while points, routes and a
\* geometry were held
C6_Witness ==
  /\ last.op = "reload" /\ last.status = 500 /\ last.error = "ValueError"
  /\ DOMAIN points # {} /\ routes # <<>> /\ ~IsNone(full_route_geojson)

\* C7 as stated: after every successful reload the route list holds exactly
\* max(L-1,0) routes for a resolved sequence of length L, the i-th connecting
\* the i-th and (i+1)-th elements
C7_Original ==
  Reloaded =>
    /\ Len(routes) = (IF Len(optimized_sequence) = 0 THEN 0
                      ELSE Len(optimized_sequence) - 1)
    /\ \A i \in 1..Len(routes) :
         {routes[i].from_id, routes[i].to_id}
           = {optimized_sequence[i], optimized_sequence[i + 1]}

\* C7: after every successful reload the route list is the open chain over
\* the resolved sequence, in order and stored canonically, without the pairs
\* of equal ids and without a pair the chain already gave; nothing else is
\* stored, so a route added before the reload survives only as a chain pair;
\* when the ids of the sequence are distinct there are exactly max(L-1,0)
\* routes, the i-th connecting the i-th and (i+1)-th elements, none
\* connecting the last to the first
C7_DefaultRoutes ==
  Reloaded =>
    LET L == Len(optimized_sequence)
    IN  /\ routes = ChainRoutes(optimized_sequence, 1, <<>>)
        /\ route_index = {<<routes[i].from_id, routes[i].to_id>> : i \in 1..Len(routes)}
        /\ Len(routes) <= (IF L = 0 THEN 0 ELSE L - 1)
        /\ Distinct(optimized_sequence) =>
             /\ Len(routes) = (IF L = 0 THEN 0 ELSE L - 1)
             /\ \A i \in 1..Len(routes) :
                  <<routes[i].from_id, routes[i].to_id>>
                    = CanonicalPair(optimized_sequence[i], optimized_sequence[i + 1])
             /\ L >= 3 =>
                  StoredAt(routes, CanonicalPair(optimized_sequence[L],
                                                 optimized_sequence[1])) = {}

\* a reload returned with a resolved sequence of three ids and fewer than
\* two routes
C7_Witness ==
  /\ Reloaded /\ last.op = "reload"
  /\ Len(optimized_sequence) = 3
  /\ Len(routes) < 2

\* C8 as stated: when the bulk call succeeds and the provider's via-point
\* ordering differs from the natural sequence, the resolved sequence is the
\* provider's ordering and the default routes are the chain over it
C8_Original ==
  (Reloaded /\ last.strategy = "route"
     /\ last.calls[1].waypoints # lokalizacja_sequence)
    => /\ optimized_sequence = last.calls[1].waypoints
       /\ routes = ChainRoutes(last.calls[1].waypoints, 1, <<>>)

\* C8: when the bulk call succeeds during a reload, whatever via-point
\* ordering the provider returns, the resolved sequence and the geometry's
\* via points are the natural sequence and the default routes are the chain
\* over the CSV order
C8_ResolvedIsNatural ==
  (Reloaded /\ last.strategy = "route")
    => /\ optimized_sequence = lokalizacja_sequence
       /\ ~IsNone(full_route_geojson)
       /\ Val(full_route_geojson).via_points = lokalizacja_sequence
       /\ routes = ChainRoutes(lokalizacja_sequence, 1, <<>>)

\* a reload of three points in CSV order A, C, B took the bulk geometry of a
\* provider that answered the order A, B, C
C8_Witness ==
  /\ Reloaded /\ last.strategy = "route"
  /\ lokalizacja_sequence = <<A, C, B>>
  /\ last.calls[1].waypoints = <<A, B, C>>
  /\ Len(routes) = 2

\* C9: when the bulk provider call fails during a reload, the resolved
\* sequence is the natural sequence, whether or not the per-pair fallback
\* yields a geometry, and the default routes are the chain over the CSV order
C9_FallbackKeepsNatural ==
  (last.op \in {"startup", "reload"} /\ last.calls # <<>> /\ last.strategy # "route")
    => /\ optimized_sequence = lokalizacja_sequence
       /\ routes = ChainRoutes(lokalizacja_sequence, 1, <<>>)

\* C10: a stored geometry that came from one successful bulk call and one
\* stitched from per-pair calls after the bulk call failed never carry the
\* same source tag: the stitched one is tagged "segment-fallback", the bulk
\* one is not
C10_SourceTags ==
  (Reloaded /\ ~IsNone(full_route_geojson)) =>
    /\ last.strategy = "segment-fallback"
         => Val(full_route_geojson).source = "segment-fallback"
    /\ last.strategy = "route"
         => Val(full_route_geojson).source # "segment-fallback"

\* database.csv holding one row with the explicit id and the GPS field 5,5
CollidingFile(id) == CsvFile(<<DatabaseRow(id, <<"5", ",", "5">>)>>)

\* C11 as stated: a secondary row whose explicit id is the id of a point of
\* the registry is dropped: the point is not overwritten and the registry
\* has the same ids after the row as before
C11_Original ==
  \A id \in DOMAIN points :
    LET merged == load_database_points(CollidingFile(id), points)
    IN  merged[id] = points[id] /\ DOMAIN merged = DOMAIN points

\* C11: a secondary row whose explicit id is the id of a point of the
\* registry does not overwrite that point and is not dropped either: it is
\* added under the first generated id db_<n>, n >= 2, that the registry does
\* not hold, so the registry gains exactly one point, with the row's
\* coordinates, and keeps every other point as it was
C11_CollisionRekeyed ==
  \A id \in DOMAIN points :
    LET merged == load_database_points(CollidingFile(id), points)
        added == DOMAIN merged \ DOMAIN points
    IN  /\ \A old \in DOMAIN points : old \in DOMAIN merged /\ merged[old] = points[old]
        /\ Cardinality(added) = 1
        /\ \E n \in 2..(Cardinality(DOMAIN points) + 2) :
             /\ added = {DbId(n)}
             /\ \A k \in 2..(n - 1) : DbId(k) \in DOMAIN points
             /\ merged[DbId(n)] = Point(DbId(n), 5, 5)

\* a load merged the secondary row with id A into a registry whose primary
\* source holds A: A keeps its primary coordinates and db_2 holds the row's
C11_Witness ==
  /\ Reloaded
  /\ \E i \in 1..Len(lokalizacja_sequence) : lokalizacja_sequence[i] = A
  /\ A \in DOMAIN points /\ points[A] = Point(A, 0, 0)
  /\ DbId(2) \in DOMAIN points /\ points[DbId(2)] = Point(DbId(2), 5, 5)

\* C13: no provider failure makes a reload fail: a load whose primary source
\* was read ends without an exception, and POST /reload-points answers 200
C13_ProviderFailureAbsorbed ==
  (last.op \in {"startup", "reload"}
     /\ last.error \notin {"FileNotFoundError", "ValueError"})
    => /\ last.error = "none"
       /\ last.op = "reload" => last.status = 200

\* C14: in every state between operations, the state left by a reload that
\* ended with an error included, both endpoints of every stored route are
\* ids of the current registry
C14_RouteEndpointsRegistered ==
  \A i \in 1..Len(routes) :
    routes[i].from_id \in DOMAIN points /\ routes[i].to_id \in DOMAIN points

\* C18: no provider call is retried and the fallback only follows a failed
\* bulk call: a load issues at most one bulk call, and first; per-pair calls
\* follow only a bulk call that gave no geometry, one per consecutive pair of
\* the sequence, in pair order, none twice; addRoute and removeRoute issue
\* no provider call
C18_NoRetry ==
  LET calls == last.calls
      bulk == {k \in 1..Len(calls) : calls[k].api = "route"}
      pairs == {k \in 1..Len(calls) : calls[k].api = "segment"}
  IN  /\ last.op \notin {"startup", "reload"} => calls = <<>>
      /\ Cardinality(bulk) <= 1
      /\ bulk \subseteq {1}
      /\ last.strategy = "route" => Len(calls) = 1
      /\ pairs # {} =>
           /\ bulk = {1}
           /\ last.strategy \in {"segment-fallback", "raised"}
           /\ Cardinality(pairs) <= Len(lokalizacja_sequence) - 1
           /\ \A k \in pairs :
                calls[k].ids = <<lokalizacja_sequence[k - 1], lokalizacja_sequence[k]>>

\* a reload of three points whose bulk call and two per-pair calls all
\* failed: three calls, none repeated
C18_Witness ==
  /\ last.op = "reload" /\ last.strategy = "segment-fallback"
  /\ Len(lokalizacja_sequence) = 3
  /\ Len(last.calls) = 3
  /\ \A k \in 1..3 : last.calls[k].behaviour = "transport_error"
  /\ IsNone(full_route_geojson)

\* C19: in every reachable state the lookup set is exactly the set of
\* canonical pairs of the routes in the list, and a successful removeRoute,
\* the pair given in either order, removes exactly one list entry, leaves the
\* other routes in their insertion order and leaves list and set in step
C19_ListAndSetInStep ==
  /\ route_index = {CanonicalPair(routes[i].from_id, routes[i].to_id) : i \in 1..Len(routes)}
  /\ \A a, b \in AllIds :
       LET removed == delete_route(Globals, a, b)
           after == removed.g.routes
       IN  removed.status = 200 =>
             /\ removed = delete_route(Globals, b, a)
             /\ \E k \in 1..Len(routes) :
                  /\ CanonicalPair(routes[k].from_id, routes[k].to_id) = CanonicalPair(a, b)
                  /\ after = SubSeq(routes, 1, k - 1) \o SubSeq(routes, k + 1, Len(routes))
             /\ removed.g.route_index
                  = {CanonicalPair(after[i].from_id, after[i].to_id) : i \in 1..Len(after)}
             /\ removed.g.route_index = route_index \ {CanonicalPair(a, b)}

\* a removeRoute given the larger id first succeeded and left other routes
C19_Witness ==
  /\ last.op = "delete" /\ last.status = 200
  /\ StrLess(last.to_id, last.from_id)
  /\ Len(routes) >= 2
  /\ StoredAt(routes, CanonicalPair(last.from_id, last.to_id)) = {}

\* the coordinate list a per-pair call of the log brought back, <<>> when it
\* brought none that can be used
SegmentLine(call) ==
  LET start == <<points[call.ids[1]].lng, points[call.ids[1]].lat>>
      end == <<points[call.ids[2]].lng, points[call.ids[2]].lat>>
  IN  CASE call.behaviour = "ok" -> <<start, end>>
        [] call.behaviour = "snapped" -> <<<<start[1] + 1, start[2]>>, end>>
        [] call.behaviour = "single_point" -> <<start>>
        [] OTHER -> <<>>

RECURSIVE StitchedFrom(_, _, _)
\* the lists of the per-pair calls from the k-th entry of the log on, joined
\* in order onto acc, the first coordinate of a list left out exactly when it
\* equals the last coordinate of acc
StitchedFrom(calls, k, acc) ==
  IF k > Len(calls) THEN acc
  ELSE LET line == IF calls[k].api = "segment" THEN SegmentLine(calls[k]) ELSE <<>>
       IN  StitchedFrom(calls, k + 1,
             IF line = <<>> THEN acc
             ELSE IF acc # <<>> /\ acc[Len(acc)] = line[1] THEN acc \o Tail(line)
             ELSE acc \o line)

\* the consecutive pairs of a sequence with both ids in the registry, in order
ResolvedPairs(sequence) ==
  LET at == SelectSeq([i \in 1..(IF sequence = <<>> THEN 0 ELSE Len(sequence) - 1) |-> i],
                      LAMBDA i : {sequence[i], sequence[i + 1]} \subseteq DOMAIN points)
  IN  [k \in 1..Len(at) |-> <<sequence[at[k]], sequence[at[k] + 1]>>]

\* C15: for every sequence and every combination of per-pair outcomes the
\* fallback requests the resolvable consecutive pairs in order and its
\* coordinate list is the concatenation, in pair order, of the successful
\* segments' lists, each in its own order, the first coordinate of a segment
\* dropped exactly when it equals the last coordinate accumulated so far; the
\* result is absent when fewer than 2 coordinates are accumulated
C15_Stitching ==
  (last.op = "synthesize" /\ last.strategy = "segment-fallback") =>
    LET expected == StitchedFrom(last.calls, 1, <<>>)
        requested == SelectSeq(last.calls, LAMBDA call : call.api = "segment")
    IN  /\ [k \in 1..Len(requested) |-> requested[k].ids]
             = ResolvedPairs(lokalizacja_sequence)
        /\ IF Len(expected) < 2 THEN IsNone(full_route_geojson)
           ELSE /\ ~IsNone(full_route_geojson)
                /\ Val(full_route_geojson).geometry
                     = [type |-> "LineString", coordinates |-> expected]
                /\ Val(full_route_geojson).via_points = lokalizacja_sequence

\* the points A, B, C in order, the bulk call failed, both per-pair calls
\* answered their two endpoints: the shared vertex (0,1) is kept once
C15_Witness ==
  /\ last.op = "synthesize" /\ last.strategy = "segment-fallback"
  /\ lokalizacja_sequence = <<A, B, C>>
  /\ Len(last.calls) = 3
  /\ last.calls[2].behaviour = "ok" /\ last.calls[3].behaviour = "ok"
  /\ ~IsNone(full_route_geojson)
  /\ Val(full_route_geojson).geometry.coordinates = <<<<0, 0>>, <<0, 1>>, <<0, 2>>>>

\* C16: a bulk response whose routes[0].geometry is present and is not a
\* LineString is a provider failure: that geometry is not stored and the
\* per-pair fallback runs
C16_NonLineStringIsFailure ==
  (last.op = "synthesize" /\ last.calls # <<>> /\ last.calls[1].behaviour = "polygon")
    => /\ last.strategy # "route"
       /\ IsNone(full_route_geojson)
            \/ Val(full_route_geojson).geometry.type = "LineString"

\* C17: synthesize on a sequence with fewer than 2 elements that are ids of
\* the registry, whatever its length, yields absent, issues no provider call
\* and leaves the resolved sequence equal to the input sequence
C17_TooFewPoints ==
  (last.op = "synthesize"
     /\ Cardinality({i \in 1..Len(lokalizacja_sequence) :
                       lokalizacja_sequence[i] \in DOMAIN points}) < 2)
    => /\ last.calls = <<>>
       /\ last.error = "none"
       /\ IsNone(full_route_geojson)
       /\ optimized_sequence = lokalizacja_sequence

\* synthesize ran on a sequence of three ids of which one is in the registry
C17_Witness ==
  /\ last.op = "synthesize"
  /\ Len(lokalizacja_sequence) = 3
  /\ Cardinality({i \in 1..3 : lokalizacja_sequence[i] \in DOMAIN points}) = 1
  /\ optimized_sequence = lokalizacja_sequence
  /\ last.calls = <<>>

\* C20: route edits behave as a critical section under concurrent requests:
\* whatever the interleaving of two addRoute requests for one pair the list
\* holds at most one route for it; of two removeRoute requests for one stored
\* pair one succeeds and the other reports not-found, no request ends with
\* another error, and list and lookup set are in step once the requests are
\* answered
C20_EditsAreCritical ==
  /\ \A i, j \in 1..Len(routes) :
       CanonicalPair(routes[i].from_id, routes[i].to_id)
         = CanonicalPair(routes[j].from_id, routes[j].to_id) => i = j
  /\ \A t \in Threads :
       (threads[t].pc = "idle" /\ threads[t].op \in {"add", "delete"})
         => threads[t].status \in {200, 201, 400, 404}
  /\ (\A t \in Threads : threads[t].pc = "idle") =>
       route_index = {CanonicalPair(routes[i].from_id, routes[i].to_id) :
                        i \in 1..Len(routes)}

\* C12: a reader running while a reload is in progress never observes a
\* partially written state: what it is answered is what the state held when
\* that reload began, so never a route list cleared and not yet repopulated
\* and never the new registry paired with the routes of the previous one
C12_ReadersSeeWholeState ==
  \A t \in Threads :
    (threads[t].op \in {"get_routes", "get_route_config"}
       /\ ~IsNone(threads[t].local.reloading)) =>
      LET before == [Globals EXCEPT !.points = Val(threads[t].local.reloading).points,
                                    !.routes = Val(threads[t].local.reloading).routes]
      IN  threads[t].local.seen
            = IF threads[t].op = "get_routes" THEN get_routes(before)
              ELSE get_route_config(before)

=============================================================================
